---- MODULE Spec2Model ----
(***************************************************************************)
(* SQL lineage extractor (parse_sql.py, make_sql_graph.py).                *)
(*                                                                         *)
(* Text is modelled as sequences of one-character strings, so that         *)
(* splitting, stripping, upper-casing and joining are computed as the      *)
(* Python code computes them.  A statement is the sequence of the clauses  *)
(* the module's regular expressions find in it, in text order.             *)
(***************************************************************************)
EXTENDS Integers, Sequences, FiniteSets, TLC

VARIABLES
    \* ---- _aggregate_results (make_sql_graph.py) ----
    pc,                 \* "idle" (between files), "parsing" (inside parse_file), "done"
    file_no,            \* number of the file being parsed / last parsed (its path)
    default_catalog,    \* the caller-supplied default catalog, as given
    all_nodes, agg_temporals, agg_edges_lineage, agg_edges_pairs, agg_edges_usage,
    agg_catalogs, agg_statements, creations_map, consumers_map, nodes_payload,
    \* ---- parse_file locals (parse_sql.py) ----
    nodes, created, temporals, edges_lineage, edges_pairs, edges_usage,
    statements_info, catalogs, current_catalog, hit_index, temp_known,
    stmt_counter, catalog_hits,
    \* ---- the input read so far: files[f] is the statement list of file f ----
    files,
    \* ---- a whole input given beforehand: script[f] is the list of the lines of the
    \* file of path f, a line the list of its statements; pending lists the paths
    \* still to be handed to parse_file; first_run keeps the result of an earlier
    \* aggregation of the same files ----
    script, pending, first_run,
    \* ---- main: the paths whose read has failed, and the output files written ----
    unreadable, written,
    \* ---- _qualify called on its own ----
    q_pc, q_name, q_catalog, q_catalog2, q_once, q_twice,
    \* ---- _extract_join_key called on its own ----
    k_pc, on_clause, join_key

aggvars == <<pc, file_no, default_catalog, all_nodes, agg_temporals, agg_edges_lineage,
             agg_edges_pairs, agg_edges_usage, agg_catalogs, agg_statements,
             creations_map, consumers_map, nodes_payload>>
filevars == <<nodes, created, temporals, edges_lineage, edges_pairs, edges_usage,
              statements_info, catalogs, current_catalog, hit_index, temp_known,
              stmt_counter, catalog_hits>>
qvars == <<q_pc, q_name, q_catalog, q_catalog2, q_once, q_twice>>
kvars == <<k_pc, on_clause, join_key>>
scriptvars == <<script, pending, first_run>>
outvars == <<unreadable, written>>
vars == <<aggvars, filevars, files, qvars, kvars, scriptvars, outvars>>

(***************************************************************************)
(* Bounds                                                                  *)
(***************************************************************************)
MaxFiles == 2       \* files handed to _aggregate_results
MaxStmts == 3       \* statements read over the whole run
MaxIdLen == 5       \* characters of an identifier given to _qualify on its own
MaxOnLen == 5       \* characters of an ON clause given to _extract_join_key on its own
MaxScript == 3      \* statements of an input given beforehand
MaxTokens == 4      \* statements and comment markers of a commented input

(***************************************************************************)
(* Strings                                                                 *)
(***************************************************************************)
None == <<"None">>                  \* Python's None where a string is optional
Quote == "\""
Whitespace == {" "}

Lower == <<"a","b","c","d","e","f","g","h","i","j","k","l","m",
           "n","o","p","q","r","s","t","u","v","w","x","y","z">>
Capital == <<"A","B","C","D","E","F","G","H","I","J","K","L","M",
             "N","O","P","Q","R","S","T","U","V","W","X","Y","Z">>
Digits == {"0","1","2","3","4","5","6","7","8","9"}

\* str.upper() on one character
UpperChar(ch) ==
    IF \E i \in 1..26 : Lower[i] = ch
    THEN Capital[CHOOSE i \in 1..26 : Lower[i] = ch]
    ELSE ch

\* str.upper()
upper(s) == [i \in 1..Len(s) |-> UpperChar(s[i])]

RECURSIVE lstrip(_, _)
lstrip(s, chars) ==
    IF s # <<>> /\ Head(s) \in chars THEN lstrip(Tail(s), chars) ELSE s

RECURSIVE rstrip(_, _)
rstrip(s, chars) ==
    IF s # <<>> /\ s[Len(s)] \in chars THEN rstrip(SubSeq(s, 1, Len(s) - 1), chars) ELSE s

\* str.strip(chars)
strip(s, chars) == rstrip(lstrip(s, chars), chars)

RECURSIVE SplitFrom(_, _, _, _)
SplitFrom(s, sep, i, cur) ==
    IF i > Len(s) THEN <<cur>>
    ELSE IF s[i] = sep THEN <<cur>> \o SplitFrom(s, sep, i + 1, <<>>)
    ELSE SplitFrom(s, sep, i + 1, Append(cur, s[i]))

\* str.split(sep) for a one-character separator: empty pieces are kept
split(s, sep) == SplitFrom(s, sep, 1, <<>>)

RECURSIVE join(_, _)
\* sep.join(parts)
join(parts, sep) ==
    IF parts = <<>> THEN <<>>
    ELSE IF Len(parts) = 1 THEN parts[1]
    ELSE parts[1] \o <<sep>> \o join(Tail(parts), sep)

\* needle in haystack (substring test)
Contains(haystack, needle) ==
    \E i \in 1..(Len(haystack) - Len(needle) + 1) :
        SubSeq(haystack, i, i + Len(needle) - 1) = needle

\* the last element of a non-empty sequence: seq[-1]
Last(seq) == seq[Len(seq)]

Longer(shorter, alphabet, n) ==
    shorter \cup {Append(s, ch) : s \in {t \in shorter : Len(t) = n - 1}, ch \in alphabet}

\* all sequences over alphabet of length 0..n
RECURSIVE SeqsUpTo(_, _)
SeqsUpTo(alphabet, n) ==
    IF n = 0 THEN {<<>>} ELSE Longer(SeqsUpTo(alphabet, n - 1), alphabet, n)

(***************************************************************************)
(* Identifier qualifier                                                    *)
(***************************************************************************)
_normalize_part(part) == upper(strip(strip(part, Whitespace), {Quote}))

\* [p for p in (piece.strip() for piece in pieces) if p]
NonEmptyParts(pieces) ==
    SelectSeq([i \in 1..Len(pieces) |-> strip(pieces[i], Whitespace)], LAMBDA p : p # <<>>)

\* [_normalize_part(part) for part in parts]
Cleaned(parts) == [i \in 1..Len(parts) |-> _normalize_part(parts[i])]

\* the (catalog, schema, table) chosen from the cleaned segments
Triple(cleaned, n, catalog_now) ==
    IF n >= 3 THEN <<cleaned[n - 2], cleaned[n - 1], cleaned[n]>>
    ELSE IF n = 2 THEN <<catalog_now, cleaned[1], cleaned[2]>>
    ELSE IF n = 1 THEN <<catalog_now, <<"D","B","O">>, cleaned[1]>>
    ELSE <<catalog_now, <<"D","B","O">>, <<"?">>>>

QualifyCleaned(cleaned, catalog_now) == join(Triple(cleaned, Len(cleaned), catalog_now), ".")

_qualify(name, catalog_now) ==
    QualifyCleaned(Cleaned(NonEmptyParts(split(name, "."))), catalog_now)

(***************************************************************************)
(* _qualify on its own: an identifier is qualified, and the result is      *)
(* qualified again under a second catalog.                                 *)
(***************************************************************************)
IdentAlphabet == {"a", "B", ".", Quote}
Identifiers == SeqsUpTo(IdentAlphabet, MaxIdLen)
Catalogs == {<<"C">>, <<"E","2">>}

IdleAggregate ==
    /\ pc = "off" /\ file_no = 0 /\ default_catalog = <<>>
    /\ all_nodes = {} /\ agg_temporals = {} /\ agg_edges_lineage = <<>>
    /\ agg_edges_pairs = <<>> /\ agg_edges_usage = <<>> /\ agg_catalogs = <<>>
    /\ agg_statements = <<>> /\ creations_map = <<>> /\ consumers_map = <<>>
    /\ nodes_payload = <<>>

IdleFile ==
    /\ nodes = {} /\ created = {} /\ temporals = {} /\ edges_lineage = <<>>
    /\ edges_pairs = <<>> /\ edges_usage = <<>> /\ statements_info = <<>>
    /\ catalogs = <<>> /\ current_catalog = <<>> /\ hit_index = 0
    /\ temp_known = {} /\ stmt_counter = 0 /\ catalog_hits = <<>>

IdleScript == script = <<>> /\ pending = <<>> /\ first_run = <<>>

IdleOut == unreadable = {} /\ written = {}

IdleQualify ==
    /\ q_pc = "off" /\ q_name = <<>> /\ q_catalog = <<>> /\ q_catalog2 = <<>>
    /\ q_once = None /\ q_twice = None

IdleJoinKey ==
    /\ k_pc = "off" /\ on_clause = None /\ join_key = None

InitQualify ==
    /\ IdleAggregate /\ IdleFile /\ files = <<>> /\ IdleJoinKey /\ IdleScript /\ IdleOut
    /\ q_pc = "start"
    /\ q_name \in Identifiers
    /\ q_catalog \in Catalogs
    /\ q_catalog2 \in Catalogs
    /\ q_once = None /\ q_twice = None

QualifyOnce ==
    /\ q_pc = "start"
    /\ q_once' = _qualify(q_name, q_catalog)
    /\ q_pc' = "once"
    /\ UNCHANGED <<q_name, q_catalog, q_catalog2, q_twice>>
    /\ UNCHANGED <<aggvars, filevars, files, kvars, scriptvars, outvars>>

QualifyAgain ==
    /\ q_pc = "once"
    /\ q_twice' = _qualify(q_once, q_catalog2)
    /\ q_pc' = "twice"
    /\ UNCHANGED <<q_name, q_catalog, q_catalog2, q_once>>
    /\ UNCHANGED <<aggvars, filevars, files, kvars, scriptvars, outvars>>

NextQualify == QualifyOnce \/ QualifyAgain

SpecQualify == InitQualify /\ [][NextQualify]_vars

(***************************************************************************)
(* Join key                                                                *)
(***************************************************************************)
\* _IDENT_CHARS, matched with re.IGNORECASE
IsIdentChar(ch) ==
    \/ \E i \in 1..26 : ch = Lower[i] \/ ch = Capital[i]
    \/ ch \in Digits
    \/ ch \in {"_", ".", "$", Quote, "-"}

\* index of the first character at or after i that is not whitespace
RECURSIVE SkipSpace(_, _)
SkipSpace(s, i) ==
    IF i <= Len(s) /\ s[i] \in Whitespace THEN SkipSpace(s, i + 1) ELSE i

\* _ON_KEY_RE matched at position i with a first group of n characters:
\* ([ident]+?)\s*=\s*([ident]+?) ; the lazy second group stops at one character
OnKeyTail(s, eq, right) ==
    /\ eq <= Len(s) /\ s[eq] = "="
    /\ right <= Len(s) /\ IsIdentChar(s[right])

OnKeyMatchAt(s, i, n) ==
    /\ i + n - 1 <= Len(s)
    /\ \A j \in i..(i + n - 1) : IsIdentChar(s[j])
    /\ OnKeyTail(s, SkipSpace(s, i + n), SkipSpace(s, SkipSpace(s, i + n) + 1))

Least(set) == CHOOSE a \in set : \A b \in set : a <= b

\* the two groups of the match that starts at i with a first group of n characters
OnKeyGroups(s, i, n, right) == <<SubSeq(s, i, i + n - 1), SubSeq(s, right, right)>>

OnKeyMatchFrom(s, i, n) ==
    OnKeyGroups(s, i, n, SkipSpace(s, SkipSpace(s, i + n) + 1))

OnKeyFirst(s, starts) ==
    IF starts = {} THEN <<>>
    ELSE OnKeyMatchFrom(s, Least(starts),
                        Least({n \in 1..Len(s) : OnKeyMatchAt(s, Least(starts), n)}))

\* _ON_KEY_RE.search(s): leftmost start, shortest first group; <<>> when no match
OnKeySearch(s) ==
    OnKeyFirst(s, {i \in 1..Len(s) : \E n \in 1..Len(s) : OnKeyMatchAt(s, i, n)})

\* split('.')[-1].strip('"').upper()
LastSegment(ident) == upper(strip(Last(split(ident, ".")), {Quote}))

JoinKeyOf(left, right) == IF left = right THEN left ELSE left \o <<"=">> \o right

JoinKeyOfMatch(match) ==
    IF match = <<>> THEN None
    ELSE JoinKeyOf(LastSegment(match[1]), LastSegment(match[2]))

_extract_join_key(on) ==
    IF on = None \/ on = <<>> THEN None ELSE JoinKeyOfMatch(OnKeySearch(on))

(***************************************************************************)
(* _extract_join_key on its own                                            *)
(***************************************************************************)
OnAlphabet == {"a", "b", ".", "=", " "}
\* the ON clauses of the documented examples
OnCustomerId == <<"a",".","i","d"," ","="," ","b",".","c","u","s","t","o","m","e","r","_","i","d">>
OnSameId == <<"a",".","i","d"," ","="," ","b",".","i","d">>
OnClauses == SeqsUpTo(OnAlphabet, MaxOnLen) \cup {OnCustomerId, OnSameId, None}

InitJoinKey ==
    /\ IdleAggregate /\ IdleFile /\ files = <<>> /\ IdleQualify /\ IdleScript /\ IdleOut
    /\ k_pc = "start"
    /\ on_clause \in OnClauses
    /\ join_key = None

ExtractJoinKey ==
    /\ k_pc = "start"
    /\ join_key' = _extract_join_key(on_clause)
    /\ k_pc' = "done"
    /\ UNCHANGED on_clause
    /\ UNCHANGED <<aggvars, filevars, files, qvars, scriptvars, outvars>>

NextJoinKey == ExtractJoinKey

SpecJoinKey == InitJoinKey /\ [][NextJoinKey]_vars

(***************************************************************************)
(* Statements                                                              *)
(*                                                                         *)
(* A clause is one match of one of the module's regular expressions; a     *)
(* statement is the sequence of its clauses in text order.                 *)
(*   c      the expression that matches: "CREATE TABLE" (_CREATE_TABLE_RE),*)
(*          "CREATE VIEW", "INSERT INTO", "SET CATALOG", "WITH"            *)
(*          (_WITH_HEADER_RE), "FROM" (_FROM_RE), "JOIN" (_JOIN_RE)        *)
(*   temp   CREATE TABLE: the TEMP/TEMPORARY group matched                 *)
(*   id     the identifier group                                           *)
(*   jt     JOIN: the join-type group, <<>> when absent                    *)
(*   on     JOIN: the ON group, None when absent                           *)
(*   names  WITH: the identifiers _CTE_NAME_RE finds in the header         *)
(***************************************************************************)
Clause(c, temp, id, jt, on, names) ==
    [c |-> c, temp |-> temp, id |-> id, jt |-> jt, on |-> on, names |-> names]
CreateTable(id)     == Clause("CREATE TABLE", FALSE, id, <<>>, None, <<>>)
CreateTempTable(id) == Clause("CREATE TABLE", TRUE, id, <<>>, None, <<>>)
CreateView(id)      == Clause("CREATE VIEW", FALSE, id, <<>>, None, <<>>)
InsertInto(id)      == Clause("INSERT INTO", FALSE, id, <<>>, None, <<>>)
SetCatalog(id)      == Clause("SET CATALOG", FALSE, id, <<>>, None, <<>>)
With(names)         == Clause("WITH", FALSE, <<>>, <<>>, None, names)
From(id)            == Clause("FROM", FALSE, id, <<>>, None, <<>>)
Join(jt, id, on)    == Clause("JOIN", FALSE, id, jt, on, <<>>)

NoKind == "None"

\* re.search: the first clause of the statement that expression c matches, 0 if none
Search(stmt, c) ==
    IF \E i \in 1..Len(stmt) : stmt[i].c = c
    THEN CHOOSE i \in 1..Len(stmt) : stmt[i].c = c /\ \A j \in 1..(i - 1) : stmt[j].c # c
    ELSE 0

\* re.finditer: the clauses of the statement that expression c matches, in order
FindIter(stmt, c) == SelectSeq(stmt, LAMBDA cl : cl.c = c)

KindOfMatches(stmt, table_match, view_match, insert_match, set_match) ==
    IF table_match # 0
    THEN IF stmt[table_match].temp
         THEN <<"CREATE TEMP TABLE", stmt[table_match].id>>
         ELSE <<"CREATE TABLE", stmt[table_match].id>>
    ELSE IF view_match # 0 THEN <<"CREATE VIEW", stmt[view_match].id>>
    ELSE IF insert_match # 0 THEN <<"INSERT INTO", stmt[insert_match].id>>
    ELSE IF set_match # 0 THEN <<"SET CATALOG", stmt[set_match].id>>
    ELSE <<NoKind, None>>

\* returns <<kind, dest>>
_statement_kind(stmt) ==
    KindOfMatches(stmt, Search(stmt, "CREATE TABLE"), Search(stmt, "CREATE VIEW"),
                  Search(stmt, "INSERT INTO"), Search(stmt, "SET CATALOG"))

\* the names _CTE_NAME_RE finds in the header, unquoted and upper-cased
CteNamesOf(names) ==
    {upper(strip(names[i], {Quote})) :
        i \in {j \in 1..Len(names) : strip(names[j], {Quote}) # <<>>}}

CteNamesAt(stmt, header_match) ==
    IF header_match = 0 THEN {} ELSE CteNamesOf(stmt[header_match].names)

_extract_cte_names(stmt) == CteNamesAt(stmt, Search(stmt, "WITH"))

_is_temporary(name) ==
    \/ Contains(upper(name), <<"T","E","M","P">>)
    \/ Contains(upper(name), <<"T","M","P">>)

Inner == <<"I","N","N","E","R">>

\* the JoinInfo of one _JOIN_RE match
JoinInfo(cl, catalog_now) ==
    [table     |-> _qualify(strip(cl.id, {Quote}), catalog_now),
     join_type |-> IF cl.jt # <<>> THEN upper(cl.jt) ELSE Inner,
     join_key  |-> _extract_join_key(cl.on)]

\* the matches of expression c in the statement whose identifier is no CTE name
NotCte(stmt, c, cte_names) ==
    SelectSeq(FindIter(stmt, c), LAMBDA cl : upper(strip(cl.id, {Quote})) \notin cte_names)

FirstQualified(real, catalog_now) ==
    IF real = <<>> THEN None ELSE _qualify(strip(real[1].id, {Quote}), catalog_now)

\* the main FROM: the first _FROM_RE match whose identifier is no CTE name
MainFrom(stmt, catalog_now) ==
    FirstQualified(NotCte(stmt, "FROM", _extract_cte_names(stmt)), catalog_now)

JoinInfos(real, catalog_now) == [i \in 1..Len(real) |-> JoinInfo(real[i], catalog_now)]

\* a source extractor that returns the joins whether or not there is a main FROM
JoinsAlways(main_from, stmt, catalog_now) ==
    JoinInfos(NotCte(stmt, "JOIN", _extract_cte_names(stmt)), catalog_now)

\* the joins returned next to main_from: none at all when there is no main FROM,
\* otherwise every _JOIN_RE match of the statement whose table is no CTE name
JoinsGiven(main_from, stmt, catalog_now) ==
    IF main_from = None THEN <<>>
    ELSE JoinInfos(NotCte(stmt, "JOIN", _extract_cte_names(stmt)), catalog_now)

SourcesGiven(main_from, stmt, catalog_now) ==
    <<main_from, JoinsGiven(main_from, stmt, catalog_now)>>

\* returns <<main_from, joins>>
_collect_sources(stmt, catalog_now) ==
    SourcesGiven(MainFrom(stmt, catalog_now), stmt, catalog_now)

(***************************************************************************)
(* Input                                                                   *)
(*                                                                         *)
(* Every file holds at least one statement, every statement stands on a   *)
(* line of its own and the file holds no comment, so _strip_comments       *)
(* records one hit for each line that holds SET CATALOG text, and the hit  *)
(* of a line exists before parse_file reaches the statement of that line.  *)
(***************************************************************************)
id_t     == <<"t">>
id_X     == <<"X">>
id_S1    == <<"S","1">>
id_c     == <<"c">>
id_V     == <<"b",".","s",".","V">>
id_TMP   == <<"r",".","T","M","P","_","S">>
id_TEMPO == <<"T","E","M","P","O">>
on_1eq1  == <<"1","=","1">>

\* SET CATALOG a
StmtSetA   == <<SetCatalog(<<"a">>)>>
\* SET CATALOG B
StmtSetB   == <<SetCatalog(<<"B">>)>>
\* CREATE TABLE t AS SELECT * FROM X
StmtCreate == <<CreateTable(id_t), From(id_X)>>
\* CREATE TEMP TABLE S1 AS SELECT * FROM TEMPO
StmtTemp   == <<CreateTempTable(id_S1), From(id_TEMPO)>>
\* CREATE VIEW b.s.V AS SELECT * FROM S1 LEFT JOIN r.TMP_S ON a.id = b.id
StmtUse    == <<CreateView(id_V), From(id_S1), Join(<<"l","e","f","t">>, id_TMP, OnSameId)>>
\* INSERT INTO r.TMP_S SELECT * FROM r.TMP_S
StmtSelf   == <<InsertInto(id_TMP), From(id_TMP)>>
\* CREATE TABLE t AS WITH c AS (SELECT 1) SELECT * FROM c JOIN X ON 1=1
StmtCte    == <<CreateTable(id_t), With(<<id_c>>), From(id_c), Join(<<>>, id_X, on_1eq1)>>
\* SELECT * FROM X
StmtSelect == <<From(id_X)>>

Statements == {StmtSetA, StmtSetB, StmtCreate, StmtTemp, StmtUse, StmtSelf, StmtCte,
               StmtSelect}

DefaultCatalogs == {<<"d">>}

RECURSIVE TotalLen(_)
TotalLen(seqs) == IF seqs = <<>> THEN 0 ELSE Len(Head(seqs)) + TotalLen(Tail(seqs))

\* statements read so far, over all files
StmtsRead == TotalLen(files)

(***************************************************************************)
(* parse_file                                                              *)
(***************************************************************************)
\* a parser that carries the catalog of the previous file into the next one
StartCatalogCarried(default) ==
    IF current_catalog = <<>> THEN upper(default) ELSE current_catalog

\* the catalog a file starts with
StartCatalog(default) == upper(default)

\* a parser on which a SET CATALOG directive has no effect
DirectiveCatalogIgnored(dest_raw) == current_catalog

\* the catalog a SET CATALOG directive makes current
DirectiveCatalog(dest_raw) == upper(dest_raw)

\* whether a creation/insert statement's target is recorded as temporary
IsTemporaryTarget(kind, qualified_target) ==
    _is_temporary(Last(split(qualified_target, ".")))

\* temp_known after the target of a creation/insert statement is registered
TempKnownAfter(known, kind, qualified_target) ==
    IF IsTemporaryTarget(kind, qualified_target) THEN known \cup {qualified_target} ELSE known

\* the hits _strip_comments records for the line of stmt (line number line_no)
LineHits(stmt, line_no) ==
    IF Search(stmt, "SET CATALOG") = 0 THEN <<>>
    ELSE <<<<line_no, upper(stmt[Search(stmt, "SET CATALOG")].id)>>>>

\* a record that takes the line of the next unconsumed hit and the name of the
\* directive itself
CatalogRecordNamed(hits, index, catalog_next) ==
    <<file_no, IF index < Len(hits) THEN hits[index + 1][1] ELSE 0, catalog_next>>

\* the catalogs record of a directive: the next unconsumed hit, or line 0 and the
\* directive's own catalog
CatalogRecord(hits, index, catalog_next) ==
    IF index < Len(hits)
    THEN <<file_no, hits[index + 1][1], hits[index + 1][2]>>
    ELSE <<file_no, 0, catalog_next>>

\* a directive that also forgets the temporaries known so far
SetCatalogToForgetting(catalog_next, hits) ==
    /\ current_catalog' = catalog_next
    /\ hit_index' = IF hit_index < Len(hits) THEN hit_index + 1 ELSE hit_index
    /\ catalogs' = Append(catalogs, CatalogRecord(hits, hit_index, catalog_next))
    /\ temp_known' = {}
    /\ UNCHANGED <<nodes, created, temporals, edges_lineage, edges_pairs, edges_usage,
                   statements_info, stmt_counter>>

\* current_catalog, hit_index and catalogs after a SET CATALOG statement
SetCatalogTo(catalog_next, hits) ==
    /\ current_catalog' = catalog_next
    /\ hit_index' = IF hit_index < Len(hits) THEN hit_index + 1 ELSE hit_index
    /\ catalogs' = Append(catalogs, CatalogRecord(hits, hit_index, catalog_next))
    /\ UNCHANGED <<nodes, created, temporals, edges_lineage, edges_pairs, edges_usage,
                   statements_info, temp_known, stmt_counter>>

\* one pass of the statement loop on a SET CATALOG statement
SetCatalogStep(dest_raw, hits) == SetCatalogTo(DirectiveCatalog(dest_raw), hits)

\* main_from (when there is one), then the join tables
SourcesForUsage(main_from, joins) ==
    (IF main_from # None THEN <<main_from>> ELSE <<>>)
        \o [i \in 1..Len(joins) |-> joins[i].table]

\* the usage edges of one statement, one for each source that is a known temporary
UsageEdges(known_sources, qualified_target) ==
    [i \in 1..Len(known_sources) |->
        <<known_sources[i], qualified_target, "UTILIZADO EN", file_no>>]

\* the sources of the statement that are in temp_known, in order
KnownSources(sources_for_usage, known) ==
    SelectSeq(sources_for_usage, LAMBDA src : src \in known)

\* a statement that emits a lineage edge whether or not it has a main source
LineageEdgesAlways(main_from, qualified_target, kind) ==
    <<<<main_from, qualified_target, "FROM", file_no>>>>

\* the lineage edge of one statement
LineageEdges(main_from, qualified_target, kind) ==
    IF main_from # None THEN <<<<main_from, qualified_target, "FROM", file_no>>>> ELSE <<>>

\* the join-pair edges of one statement
PairEdges(main_from, joins) ==
    IF main_from # None
    THEN [i \in 1..Len(joins) |->
            <<main_from, joins[i].table, joins[i].join_type, joins[i].join_key, file_no>>]
    ELSE <<>>

\* a statement that registers its target and its main source only
StatementNodesNoJoins(qualified_target, main_from, joins) ==
    {qualified_target} \cup (IF main_from # None THEN {main_from} ELSE {})

\* the nodes one statement registers
StatementNodes(qualified_target, main_from, joins) ==
    {qualified_target} \cup (IF main_from # None THEN {main_from} ELSE {})
                       \cup {joins[i].table : i \in 1..Len(joins)}

\* a counter that numbers every statement of the file, whatever its kind
NextStmtIdOfAll(counter) == Len(files[file_no]) + 1

\* stmt_counter += 1
NextStmtId(counter) == counter + 1

Register(kind, qualified_target, main_from, joins, known) ==
    /\ stmt_counter' = NextStmtId(stmt_counter)
    /\ nodes' = nodes \cup StatementNodes(qualified_target, main_from, joins)
    /\ created' = created \cup {qualified_target}
    /\ temporals' = IF IsTemporaryTarget(kind, qualified_target)
                    THEN temporals \cup {qualified_target} ELSE temporals
    /\ temp_known' = known
    /\ edges_lineage' = edges_lineage \o LineageEdges(main_from, qualified_target, kind)
    /\ edges_pairs' = edges_pairs \o PairEdges(main_from, joins)
    /\ edges_usage' = edges_usage \o
           UsageEdges(KnownSources(SourcesForUsage(main_from, joins), known),
                      qualified_target)
    /\ statements_info' = Append(statements_info,
           [id_stmt |-> NextStmtId(stmt_counter), file |-> file_no, target |-> qualified_target,
            kind |-> kind, from_main |-> main_from, joins |-> joins])
    /\ UNCHANGED <<catalogs, current_catalog, hit_index>>

RegisterSources(kind, qualified_target, sources) ==
    Register(kind, qualified_target, sources[1], sources[2],
             TempKnownAfter(temp_known, kind, qualified_target))

\* one pass of the statement loop on a creation/insert statement
CreationStep(stmt, kind, dest_raw) ==
    RegisterSources(kind, _qualify(dest_raw, current_catalog),
                    _collect_sources(stmt, current_catalog))

\* one pass of the statement loop on the statement of a line, the hits of the line recorded
LoopBody(stmt, hits, kind, dest_raw) ==
    /\ files' = [files EXCEPT ![file_no] = Append(@, stmt)]
    /\ catalog_hits' = hits
    /\ IF kind = "SET CATALOG" /\ dest_raw # None /\ dest_raw # <<>>
       THEN SetCatalogStep(dest_raw, hits)
       ELSE IF kind = NoKind \/ dest_raw = None \/ dest_raw = <<>>
       THEN UNCHANGED <<nodes, created, temporals, edges_lineage, edges_pairs,
                        edges_usage, statements_info, catalogs, current_catalog,
                        hit_index, temp_known, stmt_counter>>
       ELSE CreationStep(stmt, kind, dest_raw)

Classified(stmt, hits, kd) == LoopBody(stmt, hits, kd[1], kd[2])

\* _aggregate_results calls parse_file on the next file: the locals are set up
StartFile ==
    /\ pc = "idle"
    /\ file_no < MaxFiles
    /\ pc' = "parsing"
    /\ file_no' = file_no + 1
    /\ files' = Append(files, <<>>)
    /\ nodes' = {} /\ created' = {} /\ temporals' = {}
    /\ edges_lineage' = <<>> /\ edges_pairs' = <<>> /\ edges_usage' = <<>>
    /\ statements_info' = <<>> /\ catalogs' = <<>>
    /\ current_catalog' = StartCatalog(default_catalog)
    /\ hit_index' = 0
    /\ temp_known' = {}
    /\ stmt_counter' = 0
    /\ catalog_hits' = <<>>
    /\ UNCHANGED <<default_catalog, all_nodes, agg_temporals, agg_edges_lineage,
                   agg_edges_pairs, agg_edges_usage, agg_catalogs, agg_statements,
                   creations_map, consumers_map, nodes_payload>>
    /\ UNCHANGED <<qvars, kvars, scriptvars, outvars>>

\* the next line of the file is read, and its statement goes through the loop
ParseStatement ==
    /\ pc = "parsing"
    /\ StmtsRead < MaxStmts
    /\ \E stmt \in Statements :
          Classified(stmt, catalog_hits \o LineHits(stmt, Len(files[file_no]) + 1),
                     _statement_kind(stmt))
    /\ UNCHANGED <<aggvars, qvars, kvars, scriptvars, outvars>>

(***************************************************************************)
(* _aggregate_results                                                      *)
(***************************************************************************)
\* dict.get(key, [])
Get(map, key) == IF key \in DOMAIN map THEN map[key] ELSE <<>>

\* a map in which a new value takes the place of the list
MapAppendOverwriting(map, key, value) ==
    [k \in DOMAIN map \cup {key} |-> IF k = key THEN <<value>> ELSE map[k]]

\* defaultdict(list)[key].append(value)
MapAppend(map, key, value) ==
    [k \in DOMAIN map \cup {key} |-> IF k = key THEN Append(Get(map, k), value) ELSE map[k]]

RECURSIVE MapAppendAll(_, _, _)
MapAppendAll(map, keys, value) ==
    IF keys = <<>> THEN map
    ELSE MapAppendAll(MapAppend(map, Head(keys), value), Tail(keys), value)

\* list(dict.fromkeys(seq)): first occurrences, in order
AppendNew(front, last) ==
    IF \E i \in 1..Len(front) : front[i] = last THEN front ELSE Append(front, last)

RECURSIVE Dedup(_)
Dedup(seq) ==
    IF seq = <<>> THEN <<>>
    ELSE AppendNew(Dedup(SubSeq(seq, 1, Len(seq) - 1)), Last(seq))

\* the list of pair edges the aggregation returns
AggregatedPairs(pairs) == Dedup(pairs)

\* the list of usage edges the aggregation returns
AggregatedUsage(usage) == Dedup(usage)

\* an aggregation that deduplicates the lineage edges as well
AggregatedLineageUnified(lineage) == Dedup(lineage)

\* the list of lineage edges the aggregation returns
AggregatedLineage(lineage) == lineage

CreationEntry(stmt) ==
    [from_main |-> stmt.from_main,
     joins     |-> [i \in 1..Len(stmt.joins) |->
                       [table     |-> stmt.joins[i].table,
                        join_type |-> upper(stmt.joins[i].join_type),
                        join_key  |-> stmt.joins[i].join_key]],
     kind      |-> stmt.kind,
     file      |-> stmt.file]

ConsumerEntry(stmt) == [target |-> stmt.target, kind |-> stmt.kind, file |-> stmt.file]

\* the sources of one statement record: from_main, then the join tables
SourcesOf(stmt) ==
    (IF stmt.from_main # None /\ stmt.from_main # <<>> THEN <<stmt.from_main>> ELSE <<>>)
        \o SelectSeq([i \in 1..Len(stmt.joins) |-> stmt.joins[i].table],
                     LAMBDA t : t # None /\ t # <<>>)

\* a creation history that keeps one entry for identical creations
RECURSIVE AddCreationsDeduplicated(_, _)
AddCreationsDeduplicated(map, stmts) ==
    IF stmts = <<>> THEN map
    ELSE AddCreationsDeduplicated(
             [k \in DOMAIN map \cup {Head(stmts).target} |->
                 IF k = Head(stmts).target
                 THEN AppendNew(Get(map, k), CreationEntry(Head(stmts)))
                 ELSE map[k]],
             Tail(stmts))

\* creations_map[stmt['target']].append(creation_entry), for each statement record
RECURSIVE AddCreations(_, _)
AddCreations(map, stmts) ==
    IF stmts = <<>> THEN map
    ELSE AddCreations(MapAppend(map, Head(stmts).target, CreationEntry(Head(stmts))),
                      Tail(stmts))

RECURSIVE AddConsumers(_, _)
AddConsumers(map, stmts) ==
    IF stmts = <<>> THEN map
    ELSE AddConsumers(MapAppendAll(map, SourcesOf(Head(stmts)), ConsumerEntry(Head(stmts))),
                      Tail(stmts))

\* characters in code-point order, as sorted() compares them
CodePoints == <<Quote, "$", "-", ".">>
              \o <<"0","1","2","3","4","5","6","7","8","9">> \o <<"?">>
              \o Capital \o <<"_">> \o Lower
Ord(ch) == CHOOSE i \in 1..Len(CodePoints) : CodePoints[i] = ch

RECURSIVE StrLess(_, _)
StrLess(a, b) ==
    IF b = <<>> THEN FALSE
    ELSE IF a = <<>> THEN TRUE
    ELSE IF Head(a) = Head(b) THEN StrLess(Tail(a), Tail(b))
    ELSE Ord(Head(a)) < Ord(Head(b))

LeastStr(set) == CHOOSE a \in set : \A b \in set \ {a} : StrLess(a, b)

RECURSIVE SortedFrom(_, _)
SortedFrom(set, least) ==
    IF set = {least} THEN <<least>>
    ELSE <<least>> \o SortedFrom(set \ {least}, LeastStr(set \ {least}))

\* sorted(set of strings)
sorted(set) == IF set = {} THEN <<>> ELSE SortedFrom(set, LeastStr(set))

SinCatalogo == <<"(","S","I","N"," ","C","A","T","A","L","O","G","O",")">>

SplitParts(parts, n) ==
    IF n >= 3 THEN <<parts[n - 2], parts[n - 1], parts[n]>>
    ELSE IF n = 2 THEN <<SinCatalogo, parts[1], parts[2]>>
    ELSE <<SinCatalogo, <<"D","B","O">>, parts[1]>>

_split_identifier(identifier) ==
    SplitParts(split(identifier, "."), Len(split(identifier, ".")))

_is_temporal(table_name) ==
    \/ Contains(upper(table_name), <<"T","E","M","P">>)
    \/ Contains(upper(table_name), <<"T","M","P">>)

NodePayload(node_id, parts, temps, creations, consumers) ==
    [id         |-> node_id,
     label      |-> node_id,
     isTmp      |-> node_id \in temps \/ _is_temporal(parts[3]),
     catalog    |-> parts[1],
     schema     |-> parts[2],
     table_name |-> parts[3],
     creations  |-> Get(creations, node_id),
     consumers  |-> Get(consumers, node_id)]

_prepare_node_payload(node_id, temps, creations, consumers) ==
    NodePayload(node_id, _split_identifier(node_id), temps, creations, consumers)

\* [_prepare_node_payload(node_id, ...) for node_id in sorted(all_nodes)]
Payloads(order, temps, creations, consumers) ==
    [i \in 1..Len(order) |-> _prepare_node_payload(order[i], temps, creations, consumers)]

\* consumer lists that keep every entry
ConsumersKept(map) == map

\* the consumer lists, each deduplicated by (target, kind, file)
DedupConsumers(map) == [k \in DOMAIN map |-> Dedup(map[k])]

\* parse_file returns, and the loop body of _aggregate_results merges its result
EndFile ==
    /\ pc = "parsing"
    /\ files[file_no] # <<>>
    /\ pc' = "idle"
    /\ all_nodes' = all_nodes \cup nodes
    /\ agg_temporals' = agg_temporals \cup temporals
    /\ agg_edges_lineage' = agg_edges_lineage \o edges_lineage
    /\ agg_edges_pairs' = agg_edges_pairs \o edges_pairs
    /\ agg_edges_usage' = agg_edges_usage \o edges_usage
    /\ agg_catalogs' = agg_catalogs \o catalogs
    /\ agg_statements' = agg_statements \o statements_info
    /\ creations_map' = AddCreations(creations_map, statements_info)
    /\ consumers_map' = AddConsumers(consumers_map, statements_info)
    /\ UNCHANGED <<file_no, default_catalog, nodes_payload>>
    /\ UNCHANGED <<filevars, files, qvars, kvars, scriptvars, outvars>>

\* a run that goes on with the next file after a read has failed
AfterReadErrorSkipping == "idle"

\* where the run stands after path.read_text has raised: nothing catches the
\* exception in _strip_comments, parse_file, _aggregate_results or main
AfterReadError == "failed"

\* _aggregate_results calls parse_file on the next file and the file cannot be read
ReadFails ==
    /\ pc = "idle"
    /\ file_no < MaxFiles
    /\ pc' = AfterReadError
    /\ file_no' = file_no + 1
    /\ files' = Append(files, <<>>)
    /\ unreadable' = unreadable \cup {file_no + 1}
    /\ UNCHANGED <<default_catalog, all_nodes, agg_temporals, agg_edges_lineage,
                   agg_edges_pairs, agg_edges_usage, agg_catalogs, agg_statements,
                   creations_map, consumers_map, nodes_payload>>
    /\ UNCHANGED <<filevars, qvars, kvars, scriptvars, written>>

\* the files main writes next to the HTML page
Outputs == {"nodes.csv", "edges_lineage.csv", "edges_pairs.csv", "edges_usage.csv",
            "statements.csv", "catalogs.csv", "html"}

\* main writes the CSV files and the HTML page from the aggregated result
WriteOutputs ==
    /\ pc = "done"
    /\ pc' = "written"
    /\ written' = Outputs
    /\ UNCHANGED <<file_no, default_catalog, all_nodes, agg_temporals, agg_edges_lineage,
                   agg_edges_pairs, agg_edges_usage, agg_catalogs, agg_statements,
                   creations_map, consumers_map, nodes_payload>>
    /\ UNCHANGED <<filevars, files, qvars, kvars, scriptvars, unreadable>>

\* after the last file: the edge lists and consumer lists are deduplicated and the
\* node payloads are built
Finish ==
    /\ pc = "idle"
    /\ pc' = "done"
    /\ agg_edges_pairs' = AggregatedPairs(agg_edges_pairs)
    /\ agg_edges_usage' = AggregatedUsage(agg_edges_usage)
    /\ agg_edges_lineage' = AggregatedLineage(agg_edges_lineage)
    /\ consumers_map' = DedupConsumers(consumers_map)
    /\ nodes_payload' = Payloads(sorted(all_nodes), agg_temporals, creations_map,
                                 DedupConsumers(consumers_map))
    /\ UNCHANGED <<file_no, default_catalog, all_nodes, agg_temporals, agg_catalogs,
                   agg_statements, creations_map>>
    /\ UNCHANGED <<filevars, files, qvars, kvars, scriptvars, outvars>>

Init ==
    /\ pc = "idle" /\ file_no = 0
    /\ default_catalog \in DefaultCatalogs
    /\ all_nodes = {} /\ agg_temporals = {} /\ agg_edges_lineage = <<>>
    /\ agg_edges_pairs = <<>> /\ agg_edges_usage = <<>> /\ agg_catalogs = <<>>
    /\ agg_statements = <<>> /\ creations_map = <<>> /\ consumers_map = <<>>
    /\ nodes_payload = <<>>
    /\ IdleFile /\ files = <<>> /\ IdleQualify /\ IdleJoinKey /\ IdleScript /\ IdleOut

Next == StartFile \/ ReadFails \/ ParseStatement \/ EndFile \/ Finish \/ WriteOutputs

Spec == Init /\ [][Next]_vars

(***************************************************************************)
(* A whole input given beforehand                                          *)
(*                                                                         *)
(* The files exist before the run: _strip_comments reads every line of a   *)
(* file before parse_file reaches its first statement, a line may hold     *)
(* more than one statement, and the same files may be aggregated again in  *)
(* another order.                                                          *)
(***************************************************************************)
id_n == <<"n">>

\* INSERT INTO t SELECT 'SET CATALOG n' FROM X
StmtNote == <<InsertInto(id_t), SetCatalog(id_n), From(id_X)>>

\* CREATE TABLE t AS WITH c AS (SELECT 1) SELECT * FROM c JOIN X ON 1=1
\*    WHERE a IN (SELECT a FROM S1)
StmtEarlyJoin == <<CreateTable(id_t), With(<<id_c>>), From(id_c),
                   Join(<<>>, id_X, on_1eq1), From(id_S1)>>

\* a comment marker standing on a line between statements: "/*", "*/" or "--"
Marker(c) == <<Clause(c, FALSE, <<>>, <<>>, None, <<>>)>>

CatalogPool == {StmtSetA, StmtSetB, StmtNote}
SourcePool == {StmtEarlyJoin, StmtUse, StmtCte}
MergePool == {StmtUse, StmtSelf, StmtSetA}

\* the input with one more statement at its end: at the start of a new file
\* ("file"), on a new line of the last file ("line") or on its last line ("same")
AddStatement(sc, stmt, cut) ==
    IF cut = "file" THEN Append(sc, <<<<stmt>>>>)
    ELSE IF cut = "line" THEN [sc EXCEPT ![Len(sc)] = Append(@, <<stmt>>)]
    ELSE [sc EXCEPT ![Len(sc)][Len(sc[Len(sc)])] = Append(@, stmt)]

RECURSIVE Layout(_, _)
Layout(flat, cuts) ==
    IF Len(flat) = 1 THEN <<<<<<flat[1]>>>>>>
    ELSE AddStatement(Layout(SubSeq(flat, 1, Len(flat) - 1), SubSeq(cuts, 1, Len(cuts) - 1)),
                      Last(flat), Last(cuts))

\* the inputs of 1..n statements or markers out of pool, laid out with the cuts of
\* cutset
Layouts(pool, cutset, n) ==
    UNION {{Layout(flat, cuts) : cuts \in [1..(Len(flat) - 1) -> cutset]} :
              flat \in SeqsUpTo(pool, n) \ {<<>>}}

CatalogScripts == Layouts(CatalogPool, {"same", "line"}, MaxScript)
MergeScripts == {sc \in Layouts(MergePool, {"line", "file"}, MaxScript) : Len(sc) <= MaxFiles}

\* one file of statements and comment markers
CommentScripts ==
    Layouts({StmtSetB, Marker("/*"), Marker("*/"), Marker("--")},
            {"same", "line"}, MaxTokens)

\* the hit of one line: the first SET CATALOG text on it
FirstHit(line, line_no, holders) ==
    IF holders = {} THEN <<>> ELSE LineHits(line[Least(holders)], line_no)

HitOfLine(line, line_no) ==
    FirstHit(line, line_no, {i \in 1..Len(line) : Search(line[i], "SET CATALOG") # 0})

\* the while loop of _strip_comments over one line: <<cleaned, in_block>>, cleaned
\* holding the statements of the line that stand in no comment
RECURSIVE ScanLine(_, _, _, _)
ScanLine(line, i, in_block, cleaned) ==
    IF i > Len(line) THEN <<cleaned, in_block>>
    ELSE IF ~in_block /\ line[i] = Marker("/*") THEN ScanLine(line, i + 1, TRUE, cleaned)
    ELSE IF in_block
    THEN ScanLine(line, i + 1, line[i] # Marker("*/"), cleaned)
    ELSE IF line[i] = Marker("--") THEN <<cleaned, in_block>>
    ELSE IF line[i] = Marker("*/") THEN ScanLine(line, i + 1, FALSE, cleaned)
    ELSE ScanLine(line, i + 1, FALSE, Append(cleaned, line[i]))

\* a scan that starts every line outside a block comment
RECURSIVE ScanFromFresh(_, _, _)
ScanFromFresh(lines, line_no, scanned) ==
    IF line_no > Len(lines) THEN scanned
    ELSE ScanFromFresh(lines, line_no + 1,
                       Append(scanned, ScanLine(lines[line_no], 1, FALSE, <<>>)))

\* the for loop of _strip_comments: the scan of every line, in_block carried from
\* one line to the next
RECURSIVE ScanFrom(_, _, _)
ScanFrom(lines, line_no, scanned) ==
    IF line_no > Len(lines) THEN scanned
    ELSE ScanFrom(lines, line_no + 1,
                  Append(scanned,
                         ScanLine(lines[line_no], 1,
                                  IF scanned = <<>> THEN FALSE ELSE Last(scanned)[2],
                                  <<>>)))

\* the hits of the scanned lines: a line whose end stands in a block comment
\* records none
RECURSIVE HitsFrom(_, _)
HitsFrom(scanned, line_no) ==
    IF line_no > Len(scanned) THEN <<>>
    ELSE (IF scanned[line_no][2] THEN <<>> ELSE HitOfLine(scanned[line_no][1], line_no))
         \o HitsFrom(scanned, line_no + 1)

\* the catalog_hits _strip_comments returns for the lines of a file
_strip_comments(lines) == HitsFrom(ScanFrom(lines, 1, <<>>), 1)

\* the sanitized text _strip_comments returns for the lines of a file
Sanitized(lines) == [n \in 1..Len(lines) |-> ScanFrom(lines, 1, <<>>)[n][1]]

\* the statements of the sanitized lines of a file, in order
RECURSIVE _split_statements(_)
_split_statements(lines) ==
    IF lines = <<>> THEN <<>> ELSE Head(lines) \o _split_statements(Tail(lines))

\* the orders in which n files can be handed to _aggregate_results
Orders(n) == {p \in [1..n -> 1..n] : \A i, j \in 1..n : p[i] = p[j] => i = j}

\* the dictionary _aggregate_results returns
Result ==
    [nodes |-> nodes_payload, temporals |-> agg_temporals,
     edges_lineage |-> agg_edges_lineage, edges_pairs |-> agg_edges_pairs,
     edges_usage |-> agg_edges_usage, statements |-> agg_statements,
     catalogs |-> agg_catalogs]

InitScripted(scripts) ==
    /\ pc = "idle" /\ file_no = 0
    /\ default_catalog \in DefaultCatalogs
    /\ all_nodes = {} /\ agg_temporals = {} /\ agg_edges_lineage = <<>>
    /\ agg_edges_pairs = <<>> /\ agg_edges_usage = <<>> /\ agg_catalogs = <<>>
    /\ agg_statements = <<>> /\ creations_map = <<>> /\ consumers_map = <<>>
    /\ nodes_payload = <<>>
    /\ IdleFile /\ IdleQualify /\ IdleJoinKey /\ IdleOut
    /\ script \in scripts
    /\ pending = [i \in 1..Len(script) |-> i]
    /\ files = [i \in 1..Len(script) |-> <<>>]
    /\ first_run = <<>>

\* _aggregate_results calls parse_file on the next path: the file is read whole and
\* the locals are set up
OpenFile ==
    /\ pc = "idle"
    /\ pending # <<>>
    /\ pc' = "parsing"
    /\ file_no' = Head(pending)
    /\ pending' = Tail(pending)
    /\ files' = [files EXCEPT ![Head(pending)] = <<>>]
    /\ nodes' = {} /\ created' = {} /\ temporals' = {}
    /\ edges_lineage' = <<>> /\ edges_pairs' = <<>> /\ edges_usage' = <<>>
    /\ statements_info' = <<>> /\ catalogs' = <<>>
    /\ current_catalog' = StartCatalog(default_catalog)
    /\ hit_index' = 0
    /\ temp_known' = {}
    /\ stmt_counter' = 0
    /\ catalog_hits' = _strip_comments(script[Head(pending)])
    /\ UNCHANGED <<default_catalog, all_nodes, agg_temporals, agg_edges_lineage,
                   agg_edges_pairs, agg_edges_usage, agg_catalogs, agg_statements,
                   creations_map, consumers_map, nodes_payload>>
    /\ UNCHANGED <<script, first_run, qvars, kvars, outvars>>

ReadNext(stmts, n) ==
    /\ n < Len(stmts)
    /\ Classified(stmts[n + 1], catalog_hits, _statement_kind(stmts[n + 1]))

\* the next statement of the file goes through the loop
ReadStatement ==
    /\ pc = "parsing"
    /\ ReadNext(_split_statements(Sanitized(script[file_no])), Len(files[file_no]))
    /\ UNCHANGED <<aggvars, qvars, kvars, scriptvars, outvars>>

\* the loop is over: parse_file returns and its result is merged
CloseFile ==
    /\ pc = "parsing"
    /\ Len(files[file_no]) = Len(_split_statements(Sanitized(script[file_no])))
    /\ EndFile

\* no path is left
FinishRun == pending = <<>> /\ Finish

\* the result is kept and _aggregate_results is called on the same files in
\* another order
Rerun ==
    /\ pc = "done"
    /\ first_run = <<>>
    /\ first_run' = <<Result>>
    /\ pending' \in Orders(Len(script))
    /\ pc' = "idle" /\ file_no' = 0
    /\ files' = [i \in 1..Len(script) |-> <<>>]
    /\ all_nodes' = {} /\ agg_temporals' = {} /\ agg_edges_lineage' = <<>>
    /\ agg_edges_pairs' = <<>> /\ agg_edges_usage' = <<>> /\ agg_catalogs' = <<>>
    /\ agg_statements' = <<>> /\ creations_map' = <<>> /\ consumers_map' = <<>>
    /\ nodes_payload' = <<>>
    /\ UNCHANGED <<default_catalog, script, filevars, qvars, kvars, outvars>>

InitCatalogs == InitScripted(CatalogScripts)

NextCatalogs == OpenFile \/ ReadStatement \/ CloseFile \/ FinishRun

SpecCatalogs == InitCatalogs /\ [][NextCatalogs]_vars

SourceScripts == Layouts(SourcePool, {"line"}, MaxScript)

InitSources == InitScripted(SourceScripts)

SpecSources == InitSources /\ [][NextCatalogs]_vars

SpecComments == InitScripted(CommentScripts) /\ [][NextCatalogs]_vars

InitMerge == InitScripted(MergeScripts)

NextMerge == OpenFile \/ ReadStatement \/ CloseFile \/ FinishRun \/ Rerun

SpecMerge == InitMerge /\ [][NextMerge]_vars

(***************************************************************************)
(* Properties                                                              *)
(***************************************************************************)
CreationKinds == {"CREATE TABLE", "CREATE TEMP TABLE", "CREATE VIEW", "INSERT INTO"}

KindOf(stmt) == _statement_kind(stmt)[1]
DestOf(stmt) == _statement_kind(stmt)[2]

\* the lines of a file that hold a creation/insert statement, in order
CreationLines(file) ==
    SelectSeq([i \in 1..Len(file) |-> i], LAMBDA i : KindOf(file[i]) \in CreationKinds)

\* the catalog in force at line j of a file: the one named by the last SET CATALOG
\* directive above the line, or the default catalog when there is none
CatalogInForce(file, j) ==
    LET above == {i \in 1..(j - 1) : KindOf(file[i]) = "SET CATALOG"}
        last  == CHOOSE i \in above : \A k \in above : k <= i
    IN  IF above = {} THEN upper(default_catalog) ELSE upper(DestOf(file[last]))

\* the number of segments an identifier is written with
SegmentsOf(raw) == Len(NonEmptyParts(split(raw, ".")))

\* an identifier of one or two segments, qualified with a catalog
QualifiedWith(raw, cat) ==
    LET segs == NonEmptyParts(split(raw, "."))
        up   == [i \in 1..Len(segs) |-> upper(strip(segs[i], {Quote}))]
    IN  join(<<cat>> \o (IF Len(segs) = 1 THEN <<<<"D","B","O">>>> ELSE <<>>) \o up, ".")

\* the FROM and JOIN clauses of a statement that name a table and no CTE
RealClauses(stmt, c) == NotCte(stmt, c, _extract_cte_names(stmt))

\* record r, made from the statement at line j of file, has its target and its
\* sources of fewer than three segments qualified with the catalog in force at j
ScopedRecord(r, file, j) ==
    LET stmt  == file[j]
        cat   == CatalogInForce(file, j)
        froms == RealClauses(stmt, "FROM")
        joins == RealClauses(stmt, "JOIN")
    IN  /\ r.kind = KindOf(stmt)
        /\ SegmentsOf(DestOf(stmt)) < 3 => r.target = QualifiedWith(DestOf(stmt), cat)
        /\ (r.from_main # None /\ SegmentsOf(froms[1].id) < 3)
              => r.from_main = QualifiedWith(froms[1].id, cat)
        /\ \A i \in 1..Len(r.joins) :
              /\ i <= Len(joins)
              /\ SegmentsOf(joins[i].id) < 3
                    => r.joins[i].table = QualifiedWith(joins[i].id, cat)

\* C1: inside one file, the target and every source of fewer than three segments
\* of each statement are qualified with the catalog named by the last SET CATALOG
\* directive above the statement, or with the upper-cased default catalog when no
\* directive precedes it; a directive below the statement has no effect on it.
CatalogScoping ==
    pc = "parsing" =>
        /\ Len(statements_info) = Len(CreationLines(files[file_no]))
        /\ \A k \in 1..Len(statements_info) :
               ScopedRecord(statements_info[k], files[file_no],
                            CreationLines(files[file_no])[k])
        /\ \A e \in 1..Len(edges_lineage) :
               \E k \in 1..Len(statements_info) :
                   /\ statements_info[k].from_main = edges_lineage[e][1]
                   /\ statements_info[k].target = edges_lineage[e][2]

\* SET CATALOG a; CREATE TABLE t AS SELECT * FROM X; SET CATALOG B: the statement
\* is qualified with A, the directive below it changes nothing
CatalogScopingReached ==
    /\ pc = "parsing"
    /\ files[file_no] = <<StmtSetA, StmtCreate, StmtSetB>>
    /\ Len(statements_info) = 1
    /\ statements_info[1].target = <<"A",".","D","B","O",".","T">>
    /\ statements_info[1].from_main = <<"A",".","D","B","O",".","X">>
    /\ current_catalog = <<"B">>

\* C2: each file is parsed from a fresh state: its catalog starts at the default
\* whatever directive an earlier file held, and a temporary table created in one
\* file gives no usage edge when a later file reads the same name.
PerFileIsolation ==
    /\ (pc = "parsing" /\ files[file_no] = <<>>)
          => /\ current_catalog = upper(default_catalog)
             /\ temp_known = {}
             /\ nodes = {} /\ statements_info = <<>> /\ edges_usage = <<>>
    /\ \A k \in 1..Len(agg_statements) :
          LET r == agg_statements[k]
          IN  /\ r.id_stmt \in 1..Len(CreationLines(files[r.file]))
              /\ ScopedRecord(r, files[r.file], CreationLines(files[r.file])[r.id_stmt])
    /\ \A e \in 1..Len(agg_edges_usage) :
          \E k \in 1..Len(agg_statements) :
              /\ agg_statements[k].file = agg_edges_usage[e][4]
              /\ agg_statements[k].target = agg_edges_usage[e][1]

\* file 1: INSERT INTO r.TMP_S SELECT * FROM r.TMP_S; SET CATALOG a
\* file 2: CREATE VIEW b.s.V AS SELECT * FROM S1 LEFT JOIN r.TMP_S ON a.id = b.id
\* the second file reads D.R.TMP_S in the default catalog and has no usage edge
PerFileIsolationReached ==
    /\ pc = "idle"
    /\ files = <<<<StmtSelf, StmtSetA>>, <<StmtUse>>>>
    /\ Len(agg_statements) = 2
    /\ agg_statements[2].file = 2
    /\ agg_statements[2].from_main = <<"D",".","D","B","O",".","S","1">>
    /\ agg_statements[2].joins[1].table = <<"D",".","R",".","T","M","P","_","S">>
    /\ \A e \in 1..Len(agg_edges_usage) : agg_edges_usage[e][4] = 1

\* the qualified sources a statement record reads: from_main, then the join tables
RecordSources(r) ==
    (IF r.from_main # None THEN {r.from_main} ELSE {})
        \cup {r.joins[i].table : i \in 1..Len(r.joins)}

UsagePairs == {<<edges_usage[e][1], edges_usage[e][2]>> : e \in 1..Len(edges_usage)}

\* C3: when a statement declares a temporary table S with CREATE TEMP and a later
\* statement of the same file reads S, a usage edge from S to the later
\* statement's target is emitted; a statement that reads S above its creation
\* gets no such edge.
UsageOrdering ==
    pc = "parsing" =>
        \A i, j \in 1..Len(statements_info) :
            LET S  == statements_info[i].target
                T  == statements_info[j].target
            IN  (/\ statements_info[i].kind = "CREATE TEMP TABLE"
                 /\ S \in RecordSources(statements_info[j]))
                => /\ i < j => <<S, T>> \in UsagePairs
                   /\ (/\ j < i
                       /\ \A k \in 1..Len(statements_info) :
                             /\ statements_info[k].target = S => k >= i
                             /\ statements_info[k].target = T => k = j)
                      => <<S, T>> \notin UsagePairs

\* the temporary tables the statements parsed so far have created: declared with
\* CREATE TEMP, or recorded as temporary by name
TemporariesCreated ==
    {statements_info[k].target : k \in {n \in 1..Len(statements_info) :
        \/ statements_info[n].kind = "CREATE TEMP TABLE"
        \/ statements_info[n].target \in temporals}}

\* C4: a usage edge is only ever emitted for a temporary table created by an
\* earlier statement of the same file: never for one created by a later statement,
\* and never for the statement that creates the table itself.
NoForwardOrSelfUsage ==
    [][(pc = "parsing" /\ pc' = "parsing")
          => \A e \in (Len(edges_usage) + 1)..Len(edges_usage') :
                 edges_usage'[e][1] \in TemporariesCreated]_vars

IsAlnum(ch) == (\E i \in 1..26 : ch = Lower[i] \/ ch = Capital[i]) \/ ch \in Digits

\* TEMP or TMP stands in the name as a whole word: from the start of the name or a
\* character that is no letter or digit, to the end of the name or such a character
HasTempWord(name) ==
    \E w \in {<<"T","E","M","P">>, <<"T","M","P">>} :
        \E i \in 1..(Len(name) - Len(w) + 1) :
            /\ SubSeq(upper(name), i, i + Len(w) - 1) = w
            /\ (i = 1 \/ ~IsAlnum(name[i - 1]))
            /\ (i + Len(w) > Len(name) \/ ~IsAlnum(name[i + Len(w)]))

DeclaredTemporary ==
    {agg_statements[k].target : k \in {n \in 1..Len(agg_statements) :
        agg_statements[n].kind = "CREATE TEMP TABLE"}}

\* C5: a table that no statement declares with CREATE TEMP is flagged temporary
\* exactly when the bare table segment of its name holds TEMP or TMP as a whole
\* word, in any letter case.
TempByName ==
    pc = "done" =>
        \A n \in 1..Len(nodes_payload) :
            nodes_payload[n].id \notin DeclaredTemporary
                => (nodes_payload[n].isTmp <=> HasTempWord(nodes_payload[n].table_name))

\* C6: a table created by CREATE TEMP TABLE or CREATE TEMPORARY TABLE is flagged
\* temporary whatever its name is.
TempByDeclaration ==
    /\ pc = "parsing" =>
          \A k \in 1..Len(statements_info) :
              statements_info[k].kind = "CREATE TEMP TABLE"
                  => statements_info[k].target \in temporals
    /\ pc = "done" =>
          \A n \in 1..Len(nodes_payload) :
              nodes_payload[n].id \in DeclaredTemporary => nodes_payload[n].isTmp

\* the identifier that ends at position i of s, read leftwards
RECURSIVE IdentEndingAt(_, _)
IdentEndingAt(s, i) ==
    IF i >= 1 /\ IsIdentChar(s[i]) THEN Append(IdentEndingAt(s, i - 1), s[i]) ELSE <<>>

\* the identifier that starts at position i of s
RECURSIVE IdentStartingAt(_, _)
IdentStartingAt(s, i) ==
    IF i <= Len(s) /\ IsIdentChar(s[i]) THEN <<s[i]>> \o IdentStartingAt(s, i + 1) ELSE <<>>

\* index of the last character at or before i that is not whitespace
RECURSIVE SkipSpaceBack(_, _)
SkipSpaceBack(s, i) ==
    IF i >= 1 /\ s[i] \in Whitespace THEN SkipSpaceBack(s, i - 1) ELSE i

LeftOf(s, eq)  == IdentEndingAt(s, SkipSpaceBack(s, eq - 1))
RightOf(s, eq) == IdentStartingAt(s, SkipSpace(s, eq + 1))

\* the equalities <left> = <right> of an ON clause, by the position of their sign
Equalities(s) ==
    {eq \in 1..Len(s) : s[eq] = "=" /\ LeftOf(s, eq) # <<>> /\ RightOf(s, eq) # <<>>}

\* the join key read from whole identifiers: each side of the first equality
\* reduced to its last dot-separated segment, upper-cased
WholeIdentifierKey(on) ==
    IF on = None \/ Equalities(on) = {} THEN None
    ELSE LET eq == CHOOSE e \in Equalities(on) : \A f \in Equalities(on) : e <= f
         IN  JoinKeyOf(LastSegment(LeftOf(on, eq)), LastSegment(RightOf(on, eq)))

\* every identifier next to an equality sign of the clause is made of non-empty
\* segments
PlainIdentifier(ident) == \A i \in 1..Len(split(ident, ".")) : split(ident, ".")[i] # <<>>

PlainSides(on) ==
    on # None =>
        \A eq \in Equalities(on) :
            PlainIdentifier(LeftOf(on, eq)) /\ PlainIdentifier(RightOf(on, eq))

\* C7: the join key of an ON clause whose first equality is <left> = <right> is
\* made of the last dot-separated segment of each side, upper-cased: the one name
\* when both sides give the same name, LEFT=RIGHT otherwise, and no key when the
\* clause holds no equality.
JoinKeyReduction ==
    (k_pc = "done" /\ PlainSides(on_clause)) => join_key = WholeIdentifierKey(on_clause)

\* the statement records that have a main source, in order
EmittingStatements == SelectSeq(agg_statements, LAMBDA r : r.from_main # None)

LineagePerStatement ==
    /\ Len(agg_edges_lineage) = Len(EmittingStatements)
    /\ \A i \in 1..Len(agg_edges_lineage) :
          agg_edges_lineage[i] = <<EmittingStatements[i].from_main,
                                   EmittingStatements[i].target, "FROM",
                                   EmittingStatements[i].file>>

FirstIndex(seq, x) == CHOOSE i \in 1..Len(seq) : seq[i] = x /\ \A j \in 1..(i - 1) : seq[j] # x

\* kept holds every element of all once, in the order of first occurrence
FirstOccurrences(all, kept) ==
    /\ {kept[i] : i \in 1..Len(kept)} = {all[i] : i \in 1..Len(all)}
    /\ \A i, j \in 1..Len(kept) :
          i < j => kept[i] # kept[j] /\ FirstIndex(all, kept[i]) < FirstIndex(all, kept[j])

\* C8: the aggregated pair edges and usage edges hold each tuple once, in the order
\* of first occurrence, while the aggregated lineage edges keep one entry for each
\* statement that has a main source, equal entries included.
DedupAsymmetry ==
    /\ [](pc \in {"idle", "done"} => LineagePerStatement)
    /\ [][(pc = "idle" /\ pc' = "done")
             => /\ FirstOccurrences(agg_edges_pairs, agg_edges_pairs')
                /\ FirstOccurrences(agg_edges_usage, agg_edges_usage')
                /\ agg_edges_lineage' = agg_edges_lineage]_vars

\* one file: INSERT INTO r.TMP_S ...; CREATE VIEW b.s.V ... twice. The two equal
\* pair edges and the two equal usage edges are unified, the two equal lineage
\* edges are kept
DedupAsymmetryReached ==
    /\ pc = "done"
    /\ files = <<<<StmtSelf, StmtUse, StmtUse>>>>
    /\ Len(agg_edges_lineage) = 3
    /\ agg_edges_lineage[2] = agg_edges_lineage[3]
    /\ Len(agg_edges_pairs) = 1
    /\ Len(agg_edges_usage) = 2

ThreeSegments(name) ==
    /\ Len(split(name, ".")) = 3
    /\ \A i \in 1..3 : strip(strip(split(name, ".")[i], Whitespace), {Quote}) # <<>>

UpperSegments(name) ==
    join([i \in 1..3 |-> upper(strip(strip(split(name, ".")[i], Whitespace), {Quote}))], ".")

\* C9: qualifying an identifier of three non-empty segments gives its segments
\* upper-cased and unquoted, and qualifying the result of a qualification again,
\* under any current catalog, gives the same result.
QualifierIdempotence ==
    /\ (q_pc \in {"once", "twice"} /\ ThreeSegments(q_name))
          => q_once = UpperSegments(q_name)
    /\ q_pc = "twice" => q_twice = q_once

\* the statement the last pass of the loop has read
LastRead == Last(files'[file_no])

\* the last pass of the loop has registered a creation/insert statement that has
\* no main source
NoMainRegistered ==
    /\ pc = "parsing" /\ pc' = "parsing"
    /\ Len(statements_info') = Len(statements_info) + 1
    /\ Last(statements_info').from_main = None

\* the qualified tables of the JOIN clauses of a statement that name no CTE
JoinTables(stmt) ==
    {_qualify(strip(RealClauses(stmt, "JOIN")[i].id, {Quote}), current_catalog) :
        i \in 1..Len(RealClauses(stmt, "JOIN"))}

\* C10: a creation statement that has no main source and joins real tables emits
\* no lineage edge and no pair edge and registers its target as a node; it records
\* no join, and its JOIN clauses register no node.
NoMainSource ==
    [][NoMainRegistered
          => /\ edges_lineage' = edges_lineage
             /\ edges_pairs' = edges_pairs
             /\ Last(statements_info').joins = <<>>
             /\ nodes' = nodes \cup {Last(statements_info').target}]_vars

\* CREATE TABLE t AS WITH c AS (SELECT 1) SELECT * FROM c JOIN X ON 1=1 alone in a
\* file: the target is the only node
NoMainSourceReached ==
    /\ pc = "parsing"
    /\ files[file_no] = <<StmtCte>>
    /\ Len(statements_info) = 1
    /\ statements_info[1].from_main = None
    /\ nodes = {<<"D",".","D","B","O",".","T">>}
    /\ edges_lineage = <<>> /\ edges_pairs = <<>>

\* C10 as stated: such a statement emits no lineage edge and no pair edge, registers
\* its target as a node, and registers the table of each of its JOIN clauses as a
\* node.
NoMainSourceJoinNodes ==
    [][NoMainRegistered
          => /\ edges_lineage' = edges_lineage
             /\ edges_pairs' = edges_pairs
             /\ Last(statements_info').target \in nodes'
             /\ JoinTables(LastRead) \subseteq nodes']_vars

\* the lineage label that names a statement kind
LabelOfKind(kind) ==
    IF kind = "INSERT INTO" THEN "INSERT"
    ELSE IF kind = "CREATE TEMP TABLE" THEN "CREATE TABLE"
    ELSE kind

\* the statement records of the file that have a main source, in order
EmittingRecords == SelectSeq(statements_info, LAMBDA r : r.from_main # None)

\* C11: every lineage edge parse_file emits carries a label out of CREATE TABLE,
\* CREATE VIEW, INSERT and FROM, and the label names the kind of the statement that
\* produced the target of the edge.
LineageOp ==
    pc = "parsing" =>
        /\ Len(edges_lineage) = Len(EmittingRecords)
        /\ \A e \in 1..Len(edges_lineage) :
              /\ edges_lineage[e][3] \in {"CREATE TABLE", "CREATE VIEW", "INSERT", "FROM"}
              /\ edges_lineage[e][3] = LabelOfKind(EmittingRecords[e].kind)

\* C12: parse_file appends one statement record for each statement classified as
\* a table or view creation or an insert, in statement order, and the k-th record
\* of a file has id_stmt = k; SET CATALOG statements and unclassified statements
\* take no id.
SequenceIds ==
    pc = "parsing" =>
        /\ stmt_counter = Len(statements_info)
        /\ Len(statements_info) = Len(CreationLines(files[file_no]))
        /\ \A k \in 1..Len(statements_info) :
              /\ statements_info[k].id_stmt = k
              /\ statements_info[k].kind = KindOf(files[file_no][CreationLines(files[file_no])[k]])
              /\ statements_info[k].target =
                     _qualify(DestOf(files[file_no][CreationLines(files[file_no])[k]]),
                              CatalogInForce(files[file_no], CreationLines(files[file_no])[k]))

\* SELECT * FROM X; SET CATALOG a; CREATE TABLE t AS SELECT * FROM X: the creation
\* is the third statement and has id 1
SequenceIdsReached ==
    /\ pc = "parsing"
    /\ files[file_no] = <<StmtSelect, StmtSetA, StmtCreate>>
    /\ Len(statements_info) = 1
    /\ statements_info[1].id_stmt = 1
    /\ stmt_counter = 1

\* the statements of a list that are classified SET CATALOG, in order
DirectivesOf(stmts) == SelectSeq(stmts, LAMBDA stmt : KindOf(stmt) = "SET CATALOG")

\* C13: parse_file emits one catalogs record for each statement classified SET
\* CATALOG, in statement order; the k-th such statement takes the k-th hit of the
\* normalizer, its line number and its name, when there is one, so no hit is
\* skipped or used twice; when no hit is left the record has line number 0 and the
\* upper-cased catalog name of the directive itself.
CatalogRecords ==
    pc = "parsing" =>
        LET dirs == DirectivesOf(files[file_no])
        IN  /\ Len(catalogs) = Len(dirs)
            /\ hit_index = IF Len(dirs) < Len(catalog_hits) THEN Len(dirs)
                           ELSE Len(catalog_hits)
            /\ \A k \in 1..Len(catalogs) :
                  catalogs[k] =
                      IF k <= Len(catalog_hits)
                      THEN <<file_no, catalog_hits[k][1], catalog_hits[k][2]>>
                      ELSE <<file_no, 0, upper(DestOf(dirs[k]))>>

\* one line that holds SET CATALOG a; SET CATALOG B: the line gives one hit, the
\* first directive takes it and the second one is recorded with line 0
CatalogRecordsReached ==
    /\ pc = "parsing"
    /\ script = <<<<<<StmtSetA, StmtSetB>>>>>>
    /\ catalog_hits = <<<<1, <<"A">>>>>>
    /\ catalogs = <<<<1, 1, <<"A">>>>, <<1, 0, <<"B">>>>>>
    /\ hit_index = 1

\* a name of three non-empty, upper-cased, unquoted segments
IsQualifiedName(name) ==
    /\ Len(split(name, ".")) = 3
    /\ \A i \in 1..Len(split(name, ".")) : split(name, ".")[i] # <<>>
    /\ \A i \in 1..Len(name) : name[i] # Quote
    /\ upper(name) = name

\* C14: for every raw identifier, quoted or not, with empty or quote-only segments
\* or without, and every non-empty current catalog that holds no dot, _qualify
\* returns three non-empty, upper-cased, unquoted segments separated by two dots.
QualifiedNameInvariant ==
    q_pc \in {"once", "twice"} => IsQualifiedName(q_once)

\* how many times x stands in seq
CountIn(seq, x) == Cardinality({i \in 1..Len(seq) : seq[i] = x})

\* two lists hold the same entries the same number of times
SameEntries(a, b) ==
    /\ Len(a) = Len(b)
    /\ \A i \in 1..Len(a) : CountIn(a, a[i]) = CountIn(b, a[i])

\* two node payloads agree but for the order of the two histories
SameNode(a, b) ==
    /\ a.id = b.id /\ a.label = b.label /\ a.isTmp = b.isTmp
    /\ a.catalog = b.catalog /\ a.schema = b.schema /\ a.table_name = b.table_name
    /\ SameEntries(a.creations, b.creations)
    /\ SameEntries(a.consumers, b.consumers)

\* two aggregated results agree but for the order of the entries of their lists
SameUpToOrder(a, b) ==
    /\ a.temporals = b.temporals
    /\ Len(a.nodes) = Len(b.nodes)
    /\ \A i \in 1..Len(a.nodes) : SameNode(a.nodes[i], b.nodes[i])
    /\ SameEntries(a.edges_lineage, b.edges_lineage)
    /\ SameEntries(a.edges_pairs, b.edges_pairs)
    /\ SameEntries(a.edges_usage, b.edges_usage)
    /\ SameEntries(a.statements, b.statements)
    /\ SameEntries(a.catalogs, b.catalogs)

\* C15: aggregating the same files in any order gives the same nodes, in the same
\* order and with the same flags, and the same temporals; the lineage, pair and
\* usage edges, the statements, the catalogs and the creation and consumer
\* histories of each node hold the same entries the same number of times, in an
\* order that follows the order of the files.
MergeUpToOrder ==
    (pc = "done" /\ first_run # <<>>) => SameUpToOrder(Result, first_run[1])

\* file 1: INSERT INTO r.TMP_S ...; file 2: CREATE VIEW b.s.V ...; aggregated as
\* 1, 2 and then as 2, 1: the lineage edges come in another order
MergeUpToOrderReached ==
    /\ pc = "done"
    /\ first_run # <<>>
    /\ script = <<<<<<StmtSelf>>>>, <<<<StmtUse>>>>>>
    /\ agg_statements[1].file = 2
    /\ first_run[1].statements[1].file = 1
    /\ agg_edges_lineage # first_run[1].edges_lineage

\* C15 as stated: aggregating the same files in any order gives the same result.
MergeCommutative ==
    (pc = "done" /\ first_run # <<>>) => Result = first_run[1]

\* C16: when the read of one input file fails the whole run fails: the file is not
\* skipped, no aggregated result is returned and no CSV or HTML file is written,
\* whatever was parsed before.
UnreadableIsFatal ==
    unreadable # {} =>
        /\ pc = "failed"
        /\ unreadable = {file_no}
        /\ nodes_payload = <<>>
        /\ written = {}

\* the first file is parsed and merged, the read of the second one fails
UnreadableIsFatalReached ==
    /\ pc = "failed"
    /\ unreadable = {2}
    /\ agg_statements # <<>>
    /\ written = {}

\* C17: every usage edge parse_file and _aggregate_results return is a tuple
\* (source, target, op, file) of four parts whose op is the label USED_IN.
UsageEdgeShape ==
    /\ \A e \in 1..Len(edges_usage) :
          Len(edges_usage[e]) = 4 /\ edges_usage[e][3] = "USED_IN"
    /\ \A e \in 1..Len(agg_edges_usage) :
          Len(agg_edges_usage[e]) = 4 /\ agg_edges_usage[e][3] = "USED_IN"

\* the qualified names in the role of target, from_main or join table of a record
RolesOf(r) ==
    {r.target} \cup (IF r.from_main # None THEN {r.from_main} ELSE {})
               \cup {r.joins[i].table : i \in 1..Len(r.joins)}

RolesIn(records) == UNION {RolesOf(records[k]) : k \in 1..Len(records)}

\* the two endpoints of every edge of a list
Endpoints(edges) == UNION {{edges[e][1], edges[e][2]} : e \in 1..Len(edges)}

\* C18: after every statement parse_file processes, and after the aggregation of
\* the files, the node set is exactly the set of names that are the target, the
\* from_main or a join table of some statement record, and both endpoints of
\* every lineage, join-pair and usage edge are nodes.
NodeSet ==
    /\ nodes = RolesIn(statements_info)
    /\ Endpoints(edges_lineage) \cup Endpoints(edges_pairs) \cup Endpoints(edges_usage)
           \subseteq nodes
    /\ pc # "parsing" =>
          /\ all_nodes = RolesIn(agg_statements)
          /\ Endpoints(agg_edges_lineage) \cup Endpoints(agg_edges_pairs)
                 \cup Endpoints(agg_edges_usage) \subseteq all_nodes
    /\ pc \in {"done", "written"} =>
          {nodes_payload[i].id : i \in 1..Len(nodes_payload)} = all_nodes

\* two files aggregated, the second holding CREATE VIEW b.s.V AS SELECT * FROM S1
\* LEFT JOIN r.TMP_S ON a.id = b.id: target, main source and join table are nodes
\* of the aggregate
NodeSetReached ==
    /\ pc = "done" /\ file_no = 2
    /\ files[2] = <<StmtUse>>
    /\ Len(agg_edges_pairs) >= 1
    /\ RolesOf(Last(agg_statements)) \subseteq all_nodes
    /\ Cardinality(RolesOf(Last(agg_statements))) = 3

\* one pass of the statement loop of parse_file
LoopPass ==
    /\ pc = "parsing" /\ pc' = "parsing"
    /\ Len(files'[file_no]) = Len(files[file_no]) + 1

\* C19: a pass of the loop on a statement the classifier does not recognise
\* changes no part of the parse state; a pass on a SET CATALOG statement appends
\* one entry to catalogs, may change current_catalog and hit_index, and changes
\* no node, temporary, edge, statement record or sequence counter.
NonCreationFrame ==
    [][LoopPass =>
          /\ KindOf(LastRead) = NoKind =>
                UNCHANGED <<nodes, created, temporals, temp_known, edges_lineage,
                            edges_pairs, edges_usage, statements_info, catalogs,
                            current_catalog, hit_index, stmt_counter>>
          /\ KindOf(LastRead) = "SET CATALOG" =>
                /\ UNCHANGED <<nodes, created, temporals, temp_known, edges_lineage,
                               edges_pairs, edges_usage, statements_info, stmt_counter>>
                /\ Len(catalogs') = Len(catalogs) + 1
                /\ hit_index' \in {hit_index, hit_index + 1}]_vars

\* INSERT INTO r.TMP_S SELECT * FROM r.TMP_S; SELECT * FROM X; SET CATALOG a:
\* after the three passes the file still has the one record, the one node, the
\* known temporary and the edges of its first statement
NonCreationFrameReached ==
    /\ pc = "parsing"
    /\ files[file_no] = <<StmtSelf, StmtSelect, StmtSetA>>
    /\ Len(statements_info) = 1 /\ stmt_counter = 1
    /\ Cardinality(nodes) = 1 /\ temp_known = nodes /\ temporals = nodes
    /\ Len(edges_lineage) = 1 /\ Len(edges_usage) = 1 /\ edges_pairs = <<>>
    /\ Len(catalogs) = 1 /\ current_catalog = <<"A">>

\* the dot-separated segments of a raw identifier, each stripped of whitespace and
\* quotes and upper-cased, the empty ones left out
ValidSegments(name) ==
    SelectSeq([i \in 1..Len(split(name, ".")) |->
                  upper(strip(strip(split(name, ".")[i], Whitespace), {Quote}))],
              LAMBDA seg : seg # <<>>)

\* the name the qualifier rules give for the segments segs under catalog c
RuleName(segs, c) ==
    IF Len(segs) >= 3
    THEN join(<<segs[Len(segs) - 2], segs[Len(segs) - 1], segs[Len(segs)]>>, ".")
    ELSE IF Len(segs) = 2 THEN join(<<c, segs[1], segs[2]>>, ".")
    ELSE IF Len(segs) = 1 THEN join(<<c, <<"D","B","O">>, segs[1]>>, ".")
    ELSE c \o <<".","D","B","O",".","?">>

\* C20: _qualify(name, c) returns a name for every input, built from the non-empty
\* segments of name stripped of quotes and whitespace and upper-cased: the last
\* three when there are three or more, c + schema + table when there are two,
\* c + DBO + table when there is one, and c.DBO.? when there is none.
QualifierRules ==
    q_pc \in {"once", "twice"} =>
        /\ q_once # None
        /\ q_once = RuleName(ValidSegments(q_name), q_catalog)

\* the place of the main FROM in the statement: the first FROM clause whose
\* identifier is no CTE name, 0 if there is none
MainFromAt(stmt) ==
    IF \E i \in 1..Len(stmt) : stmt[i].c = "FROM"
           /\ upper(strip(stmt[i].id, {Quote})) \notin _extract_cte_names(stmt)
    THEN Least({i \in 1..Len(stmt) : stmt[i].c = "FROM"
           /\ upper(strip(stmt[i].id, {Quote})) \notin _extract_cte_names(stmt)})
    ELSE 0

\* the JOIN clauses that stand after the main FROM and name no CTE, in order
JoinsAfterMain(stmt) ==
    IF MainFromAt(stmt) = 0 THEN <<>>
    ELSE SelectSeq(SubSeq(stmt, MainFromAt(stmt) + 1, Len(stmt)),
                   LAMBDA cl : cl.c = "JOIN"
                       /\ upper(strip(cl.id, {Quote})) \notin _extract_cte_names(stmt))

\* the statement of the file that produced its k-th statement record
StatementOf(k) == files[file_no][CreationLines(files[file_no])[k]]

\* C21: the joins recorded for a statement are, in source order, exactly the JOIN
\* clauses that stand after its main FROM and name neither a CTE nor a
\* subquery; a JOIN clause that stands before the main FROM is not recorded.
JoinsFollowMainFrom ==
    pc = "parsing" =>
        \A k \in 1..Len(statements_info) :
            /\ Len(statements_info[k].joins) = Len(JoinsAfterMain(StatementOf(k)))
            /\ \A j \in 1..Len(statements_info[k].joins) :
                  statements_info[k].joins[j].table =
                      _qualify(strip(JoinsAfterMain(StatementOf(k))[j].id, {Quote}),
                               CatalogInForce(files[file_no],
                                              CreationLines(files[file_no])[k]))

\* source and target of the lineage edges the records call for, in record order
RECURSIVE LineageDue(_)
LineageDue(records) ==
    IF records = <<>> THEN <<>>
    ELSE (IF Head(records).from_main # None
          THEN <<<<Head(records).from_main, Head(records).target>>>> ELSE <<>>)
         \o LineageDue(Tail(records))

\* the join-pair edges the records call for: one for each recorded join, in order
RECURSIVE PairsDue(_)
PairsDue(records) ==
    IF records = <<>> THEN <<>>
    ELSE [j \in 1..Len(Head(records).joins) |->
             <<Head(records).from_main, Head(records).joins[j].table,
               Head(records).joins[j].join_type, Head(records).joins[j].join_key,
               Head(records).file>>]
         \o PairsDue(Tail(records))

RECURSIVE JoinsRecorded(_)
JoinsRecorded(records) ==
    IF records = <<>> THEN 0
    ELSE Len(Head(records).joins) + JoinsRecorded(Tail(records))

\* C22: per file, each creation/insert statement emits one lineage edge when it
\* has a main source and none otherwise, the source being the first FROM
\* identifier of the statement that is no CTE name, and one join-pair edge for each
\* entry of its joins list, in order, from that main source; so the lineage edges
\* are as many as the records with a from_main and the pair edges as many as the
\* recorded joins.
EdgesPerStatement ==
    pc = "parsing" =>
        /\ \A k \in 1..Len(statements_info) :
              statements_info[k].from_main =
                  MainFrom(StatementOf(k),
                           CatalogInForce(files[file_no], CreationLines(files[file_no])[k]))
        /\ [e \in 1..Len(edges_lineage) |-> <<edges_lineage[e][1], edges_lineage[e][2]>>]
               = LineageDue(statements_info)
        /\ \A e \in 1..Len(edges_lineage) : edges_lineage[e][4] = file_no
        /\ edges_pairs = PairsDue(statements_info)
        /\ \A e \in 1..Len(edges_pairs) : edges_pairs[e][1] # None
        /\ Len(edges_lineage) = Len(EmittingRecords)
        /\ Len(edges_pairs) = JoinsRecorded(statements_info)

\* CREATE VIEW b.s.V AS SELECT * FROM S1 LEFT JOIN r.TMP_S ON a.id = b.id, then the
\* statement whose only FROM names a CTE: two records, one lineage edge, one pair
\* edge
EdgesPerStatementReached ==
    /\ pc = "parsing"
    /\ files[file_no] = <<StmtUse, StmtCte>>
    /\ Len(statements_info) = 2
    /\ statements_info[2].from_main = None
    /\ Len(edges_lineage) = 1 /\ Len(edges_pairs) = 1
    /\ edges_pairs[1][1] = statements_info[1].from_main

\* the creation entries the statement records of target call for, in record order
CreationsDue(records, target) ==
    [k \in 1..Len(SelectSeq(records, LAMBDA r : r.target = target)) |->
        [from_main |-> SelectSeq(records, LAMBDA r : r.target = target)[k].from_main,
         joins     |-> SelectSeq(records, LAMBDA r : r.target = target)[k].joins,
         kind      |-> SelectSeq(records, LAMBDA r : r.target = target)[k].kind,
         file      |-> SelectSeq(records, LAMBDA r : r.target = target)[k].file]]

RECURSIVE CreationsTotal(_)
CreationsTotal(payload) ==
    IF payload = <<>> THEN 0
    ELSE Len(Head(payload).creations) + CreationsTotal(Tail(payload))

\* C23: after the aggregation the creations list of the node of every target has
\* one entry for each statement record of that target, in file order then
\* statement order, identical entries included, and the creation entries are as
\* many as the statement records.
CreationHistory ==
    pc \in {"done", "written"} =>
        /\ \A k \in 1..(Len(agg_statements) - 1) :
              \/ agg_statements[k].file < agg_statements[k + 1].file
              \/ /\ agg_statements[k].file = agg_statements[k + 1].file
                 /\ agg_statements[k].id_stmt < agg_statements[k + 1].id_stmt
        /\ \A k \in 1..Len(agg_statements) :
              \E i \in 1..Len(nodes_payload) : nodes_payload[i].id = agg_statements[k].target
        /\ \A i \in 1..Len(nodes_payload) :
              nodes_payload[i].creations = CreationsDue(agg_statements, nodes_payload[i].id)
        /\ CreationsTotal(nodes_payload) = Len(agg_statements)

\* CREATE TABLE t AS SELECT * FROM X twice in one file and once more in a second
\* file: the node of the target has three entries, the first two identical
CreationHistoryReached ==
    /\ pc = "done"
    /\ files = <<<<StmtCreate, StmtCreate>>, <<StmtCreate>>>>
    /\ \E i \in 1..Len(nodes_payload) :
          /\ nodes_payload[i].id = <<"D",".","D","B","O",".","T">>
          /\ Len(nodes_payload[i].creations) = 3
          /\ nodes_payload[i].creations[1] = nodes_payload[i].creations[2]
          /\ nodes_payload[i].creations[3].file = 2

\* the statement record consumes source: it is its from_main or one of its join
\* tables
Consumes(r, source) ==
    r.from_main = source \/ \E j \in 1..Len(r.joins) : r.joins[j].table = source

\* the consumer entry stands for the statement record
EntryOf(entry, r) ==
    entry = [target |-> r.target, kind |-> r.kind, file |-> r.file]

\* the first statement record that consumes source and that the entry stands for
FirstConsumer(entry, source) ==
    Least({k \in 1..Len(agg_statements) :
              Consumes(agg_statements[k], source) /\ EntryOf(entry, agg_statements[k])})

\* C24: after the aggregation the consumers list of the node of every source
\* holds an entry {target, kind, file} for each statement record that has the
\* source as from_main or as a join table, holds nothing else, holds no two
\* entries with the same (target, kind, file), and keeps the entries in the order
\* of their first occurrence.
ConsumerHistory ==
    pc \in {"done", "written"} =>
        \A i \in 1..Len(nodes_payload) :
            /\ \A k \in 1..Len(agg_statements) :
                  Consumes(agg_statements[k], nodes_payload[i].id) =>
                      \E e \in 1..Len(nodes_payload[i].consumers) :
                          EntryOf(nodes_payload[i].consumers[e], agg_statements[k])
            /\ \A e \in 1..Len(nodes_payload[i].consumers) :
                  \E k \in 1..Len(agg_statements) :
                      /\ Consumes(agg_statements[k], nodes_payload[i].id)
                      /\ EntryOf(nodes_payload[i].consumers[e], agg_statements[k])
            /\ \A e, f \in 1..Len(nodes_payload[i].consumers) :
                  e < f =>
                      /\ nodes_payload[i].consumers[e] # nodes_payload[i].consumers[f]
                      /\ FirstConsumer(nodes_payload[i].consumers[e], nodes_payload[i].id)
                           < FirstConsumer(nodes_payload[i].consumers[f], nodes_payload[i].id)

\* CREATE TABLE t AS SELECT * FROM X twice in one file, then the view on S1 and
\* r.TMP_S in a second file: X has one consumer entry for its two consuming
\* records, and the join table of the view has the view as its consumer
ConsumerHistoryReached ==
    /\ pc = "done"
    /\ files = <<<<StmtCreate, StmtCreate>>, <<StmtUse>>>>
    /\ Len(agg_statements) = 3
    /\ \E i \in 1..Len(nodes_payload) :
          /\ nodes_payload[i].id = <<"D",".","D","B","O",".","X">>
          /\ Len(nodes_payload[i].consumers) = 1
    /\ \E i \in 1..Len(nodes_payload) :
          /\ nodes_payload[i].id = <<"D",".","R",".","T","M","P","_","S">>
          /\ Len(nodes_payload[i].consumers) = 1
          /\ nodes_payload[i].consumers[1].kind = "CREATE VIEW"

\* the statements and markers of the lines, each with the number of its line
RECURSIVE Tokens(_, _)
Tokens(lines, line_no) ==
    IF line_no > Len(lines) THEN <<>>
    ELSE [i \in 1..Len(lines[line_no]) |-> [tok |-> lines[line_no][i], line |-> line_no]]
         \o Tokens(lines, line_no + 1)

\* token p stands in a block comment (InBlock), in a line comment (InLine) or in
\* neither (Plain): a block comment runs from a plain "/*" to the first "*/" after
\* it, on whatever line, or to the end of the file; a line comment runs from a
\* plain "--" to the end of its line
RECURSIVE InBlock(_, _)
RECURSIVE InLine(_, _)
Plain(toks, p) == ~InBlock(toks, p) /\ ~InLine(toks, p)

InBlock(toks, p) ==
    \E q \in 1..(p - 1) :
        /\ toks[q].tok = Marker("/*") /\ Plain(toks, q)
        /\ \A r \in (q + 1)..(p - 1) : toks[r].tok # Marker("*/")

InLine(toks, p) ==
    \E q \in 1..(p - 1) :
        toks[q].tok = Marker("--") /\ toks[q].line = toks[p].line /\ Plain(toks, q)

IsMarker(tok) == tok \in {Marker("/*"), Marker("*/"), Marker("--")}

\* the statements of the file that stand in no comment, in order
PlainStatements(toks) ==
    [k \in 1..Cardinality({p \in 1..Len(toks) : ~IsMarker(toks[p].tok) /\ Plain(toks, p)}) |->
        toks[CHOOSE p \in 1..Len(toks) :
                 /\ ~IsMarker(toks[p].tok) /\ Plain(toks, p)
                 /\ Cardinality({q \in 1..p : ~IsMarker(toks[q].tok) /\ Plain(toks, q)}) = k].tok]

\* C25: the statements parse_file reads are the statements of the file that stand
\* in no comment, a block comment running over the line ends up to its first
\* closing marker or, unterminated, to the end of the file, and a line comment
\* to the end of its line only; text in a comment records no catalog hit and
\* changes no catalog, and the file is parsed to its end.
CommentsSuppressed ==
    file_no >= 1 =>
        /\ Len(files[file_no]) <= Len(PlainStatements(Tokens(script[file_no], 1)))
        /\ files[file_no] =
               SubSeq(PlainStatements(Tokens(script[file_no], 1)), 1, Len(files[file_no]))
        /\ pc \in {"idle", "done"} =>
               files[file_no] = PlainStatements(Tokens(script[file_no], 1))
        /\ \A h \in 1..Len(catalog_hits) :
               \E p \in 1..Len(Tokens(script[file_no], 1)) :
                   /\ Plain(Tokens(script[file_no], 1), p)
                   /\ Tokens(script[file_no], 1)[p].line = catalog_hits[h][1]
                   /\ LineHits(Tokens(script[file_no], 1)[p].tok, catalog_hits[h][1])
                          = <<catalog_hits[h]>>
        /\ Len(catalogs) = Len(DirectivesOf(files[file_no]))
        /\ current_catalog =
               CatalogInForce(files[file_no], Len(files[file_no]) + 1)

\* a block comment opens on line 1, SET CATALOG B stands on line 2, the comment
\* closes on line 3 before a second SET CATALOG B: the file is parsed to its end,
\* one directive is read, and the one hit and the one catalog record are those of
\* line 3
CommentsSuppressedReached ==
    /\ pc = "done"
    /\ script = <<<<<<Marker("/*")>>, <<StmtSetB>>, <<Marker("*/"), StmtSetB>>>>>>
    /\ files = <<<<StmtSetB>>>>
    /\ catalog_hits = <<<<3, <<"B">>>>>>
    /\ agg_catalogs = <<<<1, 3, <<"B">>>>>>

\* C26: the catalog name of the catalogs record emitted for a statement
\* classified SET CATALOG is the catalog that statement made current: the k-th
\* record of a file names the catalog of its k-th directive, and the last record
\* names current_catalog.
CatalogRecordAgrees ==
    pc = "parsing" =>
        /\ Len(catalogs) = Len(DirectivesOf(files[file_no]))
        /\ \A k \in 1..Len(catalogs) :
              catalogs[k][3] = upper(DestOf(DirectivesOf(files[file_no])[k]))
        /\ (catalogs # <<>> /\ KindOf(Last(files[file_no])) = "SET CATALOG")
              => Last(catalogs)[3] = current_catalog

====
